---- MODULE Spec2Model ----
(***************************************************************************)
(* Concurrency demonstrations of the LearnPython repository:               *)
(*   - producer / consumer over a queue (30_multiprocessing.py) and the    *)
(*     straight-line queue.Queue use of 70_queues_and_synchronization.py   *)
(*   - threads bracketing a section with a Semaphore (29_threading.py,     *)
(*     31_asyncio.py, 46_async_http.py)                                    *)
(*   - ConnectionPool over a bounded Queue (44_database_connections.py)    *)
(*   - executor.map / pool.map over a list (29_threading.py,               *)
(*     30_multiprocessing.py)                                              *)
(*   - waiter / setter threads on an Event (29_threading.py,               *)
(*     31_asyncio.py)                                                      *)
(*   - shared counters incremented with and without a Lock                 *)
(*     (29_threading.py, 30_multiprocessing.py)                            *)
(* Each demonstration is its own specification over the shared variables;  *)
(* the variables of the other demonstrations stay at their initial value.  *)
(***************************************************************************)
EXTENDS Integers, Sequences, FiniteSets

VARIABLES
    \* producer / consumer (30_multiprocessing.py)
    items,        \* the list handed to producer()
    queue,        \* contents of the multiprocessing.Queue
    main_pc,      \* position of the main process (start / join calls)
    p_pc,         \* position of producer()
    p_idx,        \* index of the for loop of producer()
    c_pc,         \* position of consumer()
    consumed,     \* items the consumer has printed as "Consuming", in order
    \* 70_queues_and_synchronization.py
    q,            \* contents of q
    q_pc,         \* position in the script
    q_got,        \* value printed by "Get: ..."
    \* semaphore demonstration (29_threading.py)
    permits,      \* value the Semaphore was constructed with
    semaphore,    \* internal counter of the Semaphore
    nthreads,     \* number of threads the main thread creates
    t_pc,         \* position of each limited_resource_access thread
    s_main,       \* position of the main thread: <<"start"|"join"|"done", i>>
    \* ConnectionPool (44_database_connections.py)
    max_connections, \* self.max_connections
    pool,            \* contents of self.pool
    cl_pc,           \* position of each caller of the pool
    cl_conn,         \* argument of a caller's pending return_connection
    ca_pc,           \* position of the caller of close_all
    closed_conns,    \* connections on which conn.close() was called
    \* executor.map (29_threading.py) and pool.map (30_multiprocessing.py)
    e_fn,            \* the function mapped: "process_item" or "square_number"
    max_workers,     \* max_workers= / processes= of the pool
    e_items,         \* the list mapped over
    work_queue,      \* indices of submitted calls no worker has taken yet
    e_running,       \* per worker, the index it is computing (0: none)
    e_futures,       \* results set so far, by index
    e_pc,            \* position of the main thread
    e_next,          \* index the main thread submits / collects next
    results,         \* the list built from the map
    \* Event demonstration (29_threading.py, 31_asyncio.py)
    event,           \* the flag of the Event
    nwaiters,        \* number of waiter threads
    waiter_pc,       \* position of each waiter
    setter_pc,       \* position of setter()
    ev_main,         \* position of the main thread: <<"start"|..., i>>
    \* shared counters (29_threading.py, 30_multiprocessing.py)
    target,          \* the function every worker runs
    n_workers,       \* number of threads / processes created
    iterations,      \* range(...) of the worker's for loop
    cells,           \* the shared integers, by name
    lock,            \* TRUE while the Lock is held
    k_pc,            \* position of each worker
    k_iter,          \* iteration of each worker's for loop
    k_fld,           \* which of its increments a worker is at
    k_tmp,           \* value a worker has read and not yet written back
    k_main           \* position of the main thread: <<"start"|..., i>>

pcVars   == <<items, queue, main_pc, p_pc, p_idx, c_pc, consumed>>
q70Vars  == <<q, q_pc, q_got>>
semVars  == <<permits, semaphore, nthreads, t_pc, s_main>>
poolVars == <<max_connections, pool, cl_pc, cl_conn, ca_pc, closed_conns>>
mapVars  == <<e_fn, max_workers, e_items, work_queue, e_running, e_futures,
              e_pc, e_next, results>>
eventVars == <<event, nwaiters, waiter_pc, setter_pc, ev_main>>
counterVars == <<target, n_workers, iterations, cells, lock, k_pc, k_iter, k_fld, k_tmp, k_main>>
vars == <<pcVars, q70Vars, semVars, poolVars, mapVars, eventVars, counterVars>>

----------------------------------------------------------------------------
(* Bounds of the model *)
MaxLen   == 3      \* longest generated items list
MaxItem  == 3      \* generated items are 1..MaxItem
MaxConnections == 2 \* largest max_connections a pool is constructed with
NumClients == 2    \* callers of the ConnectionPool
MaxWaiters == 3    \* most waiter threads on one Event
MaxIncrements == 2 \* most iterations of a worker's increment loop

(* Program constants *)
None == 0                       \* the sentinel queue.put(None)
DemoItems == <<1, 2, 3, 4, 5>>  \* items = [1, 2, 3, 4, 5]
NumThreads == 5                 \* range(5)
SemaphorePermits == 2           \* threading.Semaphore(2), asyncio.Semaphore(2)
max_concurrent == 3             \* limited_fetch(urls, max_concurrent=3)
ExecutorWorkers == 3            \* ThreadPoolExecutor(max_workers=3)
PoolProcesses == 4              \* multiprocessing.Pool(processes=4)
DemoNumbers == <<1, 2, 3, 4, 5, 6, 7, 8>>  \* numbers = [1, 2, ..., 8]
CounterThreads == 3             \* for _ in range(3), file 29
ValueProcesses == 4             \* for _ in range(4), file 30
NamespaceProcesses == 5         \* for _ in range(5), file 30
MaxWorkers == NamespaceProcesses  \* the largest of the three

RECURSIVE SeqsUpTo(_, _)
SeqsUpTo(S, n) ==
    IF n = 0 THEN {<<>>}
    ELSE LET shorter == SeqsUpTo(S, n - 1)
         IN  shorter \cup {Append(s, x) : s \in shorter, x \in S}

IsPrefix(s, t) == Len(s) <= Len(t) /\ SubSeq(t, 1, Len(s)) = s

----------------------------------------------------------------------------
(* Queue primitives as the demonstrations use them.                        *)

\* queue.put(item) on a queue without maxsize: appends at the tail
QueuePutLifo(qu, item) == <<item>> \o qu
QueuePut(qu, item) == Append(qu, item)

\* if item is None: the consumer's test for the sentinel
IsSentinelNever(item) == FALSE
IsSentinel(item) == item = None

\* queue.get(): blocks while the queue is empty
QueueCanGet(qu) == qu # <<>>

\* Queue(maxsize=n).put(): blocks while the queue holds n items; a maxsize
\* of 0 or less makes the queue unbounded
BoundedCanPutUnbounded(qu, maxsize) == TRUE
BoundedCanPut(qu, maxsize) == maxsize <= 0 \/ Len(qu) < maxsize

\* Semaphore.acquire(): blocks while the counter is 0
SemCanAcquireAlways(value) == TRUE
SemCanAcquire(value) == value > 0

\* Semaphore.release(): increments the counter
SemReleasedTwice(value) == value + 2
SemReleased(value) == value + 1

\* event.wait(): returns once the flag is set, and leaves the flag as it is
EventAfterWaitAutoReset(flag) == FALSE
EventAfterWait(flag) == flag

\* with lock: (__enter__ is acquire) blocks while the lock is held
LockCanAcquireAlways(held) == TRUE
LockCanAcquire(held) == ~held

\* x += 1: the value stored for a value read earlier
Incremented(read) == read + 1

\* the worker functions: whether the increment is inside `with lock:`, and
\* the integers one iteration increments, in order
UsesLock(fn) == fn \in {"increment_counter_safe", "increment_shared_value"}
Fields(fn) ==
    CASE fn \in {"increment_counter", "increment_counter_safe"} -> <<"counter">>
      [] fn = "increment_shared_value" -> <<"value">>
      [] fn = "update_namespace" -> <<"value", "counter">>

\* the mapped functions: process_item returns f"Processed {item}",
\* square_number returns x ** 2
Apply(fn, x) == IF fn = "process_item" THEN <<"Processed", x>> ELSE x * x

\* the index whose result the map hands out next: the next of the input
\* list, whichever results are already set
NextToYieldFinished(i, ready) ==
    IF ready = {} THEN i ELSE CHOOSE j \in ready : \A k \in ready : k <= j
NextToYield(i, ready) == i

----------------------------------------------------------------------------
(* Initial values of each demonstration *)

\* a demonstration that is not running keeps these values
IdleFifo ==
    [items |-> <<>>, queue |-> <<>>, main_pc |-> "done", p_pc |-> "done",
     p_idx |-> 1, c_pc |-> "done", consumed |-> <<>>,
     q |-> <<>>, q_pc |-> "done", q_got |-> None]
IdleSem ==
    [permits |-> SemaphorePermits, semaphore |-> SemaphorePermits,
     nthreads |-> 0, t_pc |-> [t \in 1..NumThreads |-> "created"],
     s_main |-> <<"done", 1>>]
IdlePool ==
    [max_connections |-> 0, pool |-> <<>>,
     cl_pc |-> [c \in 1..NumClients |-> "idle"],
     cl_conn |-> [c \in 1..NumClients |-> None],
     ca_pc |-> "done", closed_conns |-> {}]
IdleMap ==
    [e_fn |-> "process_item", max_workers |-> 0, e_items |-> <<>>,
     work_queue |-> <<>>, e_running |-> <<>>, e_futures |-> <<>>,
     e_pc |-> "done", e_next |-> 1, results |-> <<>>]

IdleEvent ==
    [event |-> FALSE, nwaiters |-> 0,
     waiter_pc |-> [w \in 1..MaxWaiters |-> "created"],
     setter_pc |-> "done", ev_main |-> <<"done", 1>>]

IdleCounter ==
    [target |-> "increment_counter", n_workers |-> 0, iterations |-> 0,
     cells |-> [f \in {"value", "counter"} |-> 0], lock |-> FALSE,
     k_pc |-> [t \in 1..MaxWorkers |-> "created"],
     k_iter |-> [t \in 1..MaxWorkers |-> 1],
     k_fld |-> [t \in 1..MaxWorkers |-> 1],
     k_tmp |-> [t \in 1..MaxWorkers |-> 0],
     k_main |-> <<"done", 1>>]

\* producer / consumer of file 30 and the script of file 70, before
\* p_producer.start() and before the first q.put
InitFifo ==
    /\ items \in SeqsUpTo(1..MaxItem, MaxLen) \cup {DemoItems}
    /\ queue = <<>>
    /\ main_pc = "start_producer"
    /\ p_pc = "unstarted"
    /\ p_idx = 1
    /\ c_pc = "unstarted"
    /\ consumed = <<>>
    /\ q = <<>>
    /\ q_pc = "put1"
    /\ q_got = None
    /\ permits = IdleSem.permits
    /\ semaphore = IdleSem.semaphore
    /\ nthreads = IdleSem.nthreads
    /\ t_pc = IdleSem.t_pc
    /\ s_main = IdleSem.s_main
    /\ max_connections = IdlePool.max_connections
    /\ pool = IdlePool.pool
    /\ cl_pc = IdlePool.cl_pc
    /\ cl_conn = IdlePool.cl_conn
    /\ ca_pc = IdlePool.ca_pc
    /\ closed_conns = IdlePool.closed_conns
    /\ e_fn = IdleMap.e_fn
    /\ max_workers = IdleMap.max_workers
    /\ e_items = IdleMap.e_items
    /\ work_queue = IdleMap.work_queue
    /\ e_running = IdleMap.e_running
    /\ e_futures = IdleMap.e_futures
    /\ e_pc = IdleMap.e_pc
    /\ e_next = IdleMap.e_next
    /\ results = IdleMap.results
    /\ event = IdleEvent.event
    /\ nwaiters = IdleEvent.nwaiters
    /\ waiter_pc = IdleEvent.waiter_pc
    /\ setter_pc = IdleEvent.setter_pc
    /\ ev_main = IdleEvent.ev_main
    /\ target = IdleCounter.target
    /\ n_workers = IdleCounter.n_workers
    /\ iterations = IdleCounter.iterations
    /\ cells = IdleCounter.cells
    /\ lock = IdleCounter.lock
    /\ k_pc = IdleCounter.k_pc
    /\ k_iter = IdleCounter.k_iter
    /\ k_fld = IdleCounter.k_fld
    /\ k_tmp = IdleCounter.k_tmp
    /\ k_main = IdleCounter.k_main

\* the semaphore and the thread objects of file 29, before the first t.start()
InitSem ==
    /\ permits \in {SemaphorePermits, max_concurrent}
    /\ semaphore = permits
    /\ nthreads \in 1..NumThreads
    /\ t_pc = [t \in 1..NumThreads |-> "created"]
    /\ s_main = <<"start", 1>>
    /\ items = IdleFifo.items
    /\ queue = IdleFifo.queue
    /\ main_pc = IdleFifo.main_pc
    /\ p_pc = IdleFifo.p_pc
    /\ p_idx = IdleFifo.p_idx
    /\ c_pc = IdleFifo.c_pc
    /\ consumed = IdleFifo.consumed
    /\ q = IdleFifo.q
    /\ q_pc = IdleFifo.q_pc
    /\ q_got = IdleFifo.q_got
    /\ max_connections = IdlePool.max_connections
    /\ pool = IdlePool.pool
    /\ cl_pc = IdlePool.cl_pc
    /\ cl_conn = IdlePool.cl_conn
    /\ ca_pc = IdlePool.ca_pc
    /\ closed_conns = IdlePool.closed_conns
    /\ e_fn = IdleMap.e_fn
    /\ max_workers = IdleMap.max_workers
    /\ e_items = IdleMap.e_items
    /\ work_queue = IdleMap.work_queue
    /\ e_running = IdleMap.e_running
    /\ e_futures = IdleMap.e_futures
    /\ e_pc = IdleMap.e_pc
    /\ e_next = IdleMap.e_next
    /\ results = IdleMap.results
    /\ event = IdleEvent.event
    /\ nwaiters = IdleEvent.nwaiters
    /\ waiter_pc = IdleEvent.waiter_pc
    /\ setter_pc = IdleEvent.setter_pc
    /\ ev_main = IdleEvent.ev_main
    /\ target = IdleCounter.target
    /\ n_workers = IdleCounter.n_workers
    /\ iterations = IdleCounter.iterations
    /\ cells = IdleCounter.cells
    /\ lock = IdleCounter.lock
    /\ k_pc = IdleCounter.k_pc
    /\ k_iter = IdleCounter.k_iter
    /\ k_fld = IdleCounter.k_fld
    /\ k_tmp = IdleCounter.k_tmp
    /\ k_main = IdleCounter.k_main

\* a ConnectionPool after __init__: the queue pre-populated with
\* max_connections connections
InitPool ==
    /\ max_connections \in 1..MaxConnections
    /\ pool = [i \in 1..max_connections |-> i]
    /\ cl_pc = [c \in 1..NumClients |-> "idle"]
    /\ cl_conn = [c \in 1..NumClients |-> None]
    /\ ca_pc = "idle"
    /\ closed_conns = {}
    /\ items = IdleFifo.items
    /\ queue = IdleFifo.queue
    /\ main_pc = IdleFifo.main_pc
    /\ p_pc = IdleFifo.p_pc
    /\ p_idx = IdleFifo.p_idx
    /\ c_pc = IdleFifo.c_pc
    /\ consumed = IdleFifo.consumed
    /\ q = IdleFifo.q
    /\ q_pc = IdleFifo.q_pc
    /\ q_got = IdleFifo.q_got
    /\ permits = IdleSem.permits
    /\ semaphore = IdleSem.semaphore
    /\ nthreads = IdleSem.nthreads
    /\ t_pc = IdleSem.t_pc
    /\ s_main = IdleSem.s_main
    /\ e_fn = IdleMap.e_fn
    /\ max_workers = IdleMap.max_workers
    /\ e_items = IdleMap.e_items
    /\ work_queue = IdleMap.work_queue
    /\ e_running = IdleMap.e_running
    /\ e_futures = IdleMap.e_futures
    /\ e_pc = IdleMap.e_pc
    /\ e_next = IdleMap.e_next
    /\ results = IdleMap.results
    /\ event = IdleEvent.event
    /\ nwaiters = IdleEvent.nwaiters
    /\ waiter_pc = IdleEvent.waiter_pc
    /\ setter_pc = IdleEvent.setter_pc
    /\ ev_main = IdleEvent.ev_main
    /\ target = IdleCounter.target
    /\ n_workers = IdleCounter.n_workers
    /\ iterations = IdleCounter.iterations
    /\ cells = IdleCounter.cells
    /\ lock = IdleCounter.lock
    /\ k_pc = IdleCounter.k_pc
    /\ k_iter = IdleCounter.k_iter
    /\ k_fld = IdleCounter.k_fld
    /\ k_tmp = IdleCounter.k_tmp
    /\ k_main = IdleCounter.k_main

\* a pool inside its with block, before the call of map: the thread pool of
\* file 29 with process_item, or the process pool of file 30 with
\* square_number
InitMap ==
    /\ e_fn \in {"process_item", "square_number"}
    /\ max_workers = IF e_fn = "process_item" THEN ExecutorWorkers
                                              ELSE PoolProcesses
    /\ e_items \in SeqsUpTo(1..MaxItem, MaxLen)
                   \cup {IF e_fn = "process_item" THEN DemoItems
                                                  ELSE DemoNumbers}
    /\ work_queue = <<>>
    /\ e_running = [w \in 1..max_workers |-> 0]
    /\ e_futures = <<>>
    /\ e_pc = IF e_items = <<>> THEN "exit" ELSE "submit"
    /\ e_next = 1
    /\ results = <<>>
    /\ items = IdleFifo.items
    /\ queue = IdleFifo.queue
    /\ main_pc = IdleFifo.main_pc
    /\ p_pc = IdleFifo.p_pc
    /\ p_idx = IdleFifo.p_idx
    /\ c_pc = IdleFifo.c_pc
    /\ consumed = IdleFifo.consumed
    /\ q = IdleFifo.q
    /\ q_pc = IdleFifo.q_pc
    /\ q_got = IdleFifo.q_got
    /\ permits = IdleSem.permits
    /\ semaphore = IdleSem.semaphore
    /\ nthreads = IdleSem.nthreads
    /\ t_pc = IdleSem.t_pc
    /\ s_main = IdleSem.s_main
    /\ max_connections = IdlePool.max_connections
    /\ pool = IdlePool.pool
    /\ cl_pc = IdlePool.cl_pc
    /\ cl_conn = IdlePool.cl_conn
    /\ ca_pc = IdlePool.ca_pc
    /\ closed_conns = IdlePool.closed_conns
    /\ event = IdleEvent.event
    /\ nwaiters = IdleEvent.nwaiters
    /\ waiter_pc = IdleEvent.waiter_pc
    /\ setter_pc = IdleEvent.setter_pc
    /\ ev_main = IdleEvent.ev_main
    /\ target = IdleCounter.target
    /\ n_workers = IdleCounter.n_workers
    /\ iterations = IdleCounter.iterations
    /\ cells = IdleCounter.cells
    /\ lock = IdleCounter.lock
    /\ k_pc = IdleCounter.k_pc
    /\ k_iter = IdleCounter.k_iter
    /\ k_fld = IdleCounter.k_fld
    /\ k_tmp = IdleCounter.k_tmp
    /\ k_main = IdleCounter.k_main

\* the Event and its threads before the first thread is started: one waiter
\* in file 29, waiters A and B in file 31
InitEvent ==
    /\ event = FALSE
    /\ nwaiters \in 1..MaxWaiters
    /\ waiter_pc = [w \in 1..MaxWaiters |-> "created"]
    /\ setter_pc = "created"
    /\ ev_main = <<"start_waiter", 1>>
    /\ items = IdleFifo.items
    /\ queue = IdleFifo.queue
    /\ main_pc = IdleFifo.main_pc
    /\ p_pc = IdleFifo.p_pc
    /\ p_idx = IdleFifo.p_idx
    /\ c_pc = IdleFifo.c_pc
    /\ consumed = IdleFifo.consumed
    /\ q = IdleFifo.q
    /\ q_pc = IdleFifo.q_pc
    /\ q_got = IdleFifo.q_got
    /\ permits = IdleSem.permits
    /\ semaphore = IdleSem.semaphore
    /\ nthreads = IdleSem.nthreads
    /\ t_pc = IdleSem.t_pc
    /\ s_main = IdleSem.s_main
    /\ max_connections = IdlePool.max_connections
    /\ pool = IdlePool.pool
    /\ cl_pc = IdlePool.cl_pc
    /\ cl_conn = IdlePool.cl_conn
    /\ ca_pc = IdlePool.ca_pc
    /\ closed_conns = IdlePool.closed_conns
    /\ e_fn = IdleMap.e_fn
    /\ max_workers = IdleMap.max_workers
    /\ e_items = IdleMap.e_items
    /\ work_queue = IdleMap.work_queue
    /\ e_running = IdleMap.e_running
    /\ e_futures = IdleMap.e_futures
    /\ e_pc = IdleMap.e_pc
    /\ e_next = IdleMap.e_next
    /\ results = IdleMap.results
    /\ target = IdleCounter.target
    /\ n_workers = IdleCounter.n_workers
    /\ iterations = IdleCounter.iterations
    /\ cells = IdleCounter.cells
    /\ lock = IdleCounter.lock
    /\ k_pc = IdleCounter.k_pc
    /\ k_iter = IdleCounter.k_iter
    /\ k_fld = IdleCounter.k_fld
    /\ k_tmp = IdleCounter.k_tmp
    /\ k_main = IdleCounter.k_main

\* the lock-protected counters before the first worker is started:
\* increment_counter_safe on 3 threads (file 29) or increment_shared_value on
\* 4 processes (file 30)
InitCounterLocked ==
    /\ target \in {"increment_counter_safe", "increment_shared_value"}
    /\ n_workers = IF target = "increment_counter_safe" THEN CounterThreads
                                                         ELSE ValueProcesses
    /\ iterations \in 1..MaxIncrements
    /\ cells = [f \in {"value", "counter"} |-> 0]
    /\ lock = FALSE
    /\ k_pc = [t \in 1..MaxWorkers |-> "created"]
    /\ k_iter = [t \in 1..MaxWorkers |-> 1]
    /\ k_fld = [t \in 1..MaxWorkers |-> 1]
    /\ k_tmp = [t \in 1..MaxWorkers |-> 0]
    /\ k_main = <<"start", 1>>
    /\ permits = IdleSem.permits
    /\ semaphore = IdleSem.semaphore
    /\ nthreads = IdleSem.nthreads
    /\ t_pc = IdleSem.t_pc
    /\ s_main = IdleSem.s_main
    /\ max_connections = IdlePool.max_connections
    /\ pool = IdlePool.pool
    /\ cl_pc = IdlePool.cl_pc
    /\ cl_conn = IdlePool.cl_conn
    /\ ca_pc = IdlePool.ca_pc
    /\ closed_conns = IdlePool.closed_conns
    /\ e_fn = IdleMap.e_fn
    /\ max_workers = IdleMap.max_workers
    /\ e_items = IdleMap.e_items
    /\ work_queue = IdleMap.work_queue
    /\ e_running = IdleMap.e_running
    /\ e_futures = IdleMap.e_futures
    /\ e_pc = IdleMap.e_pc
    /\ e_next = IdleMap.e_next
    /\ results = IdleMap.results
    /\ event = IdleEvent.event
    /\ nwaiters = IdleEvent.nwaiters
    /\ waiter_pc = IdleEvent.waiter_pc
    /\ setter_pc = IdleEvent.setter_pc
    /\ ev_main = IdleEvent.ev_main
    /\ items = IdleFifo.items
    /\ queue = IdleFifo.queue
    /\ main_pc = IdleFifo.main_pc
    /\ p_pc = IdleFifo.p_pc
    /\ p_idx = IdleFifo.p_idx
    /\ c_pc = IdleFifo.c_pc
    /\ consumed = IdleFifo.consumed
    /\ q = IdleFifo.q
    /\ q_pc = IdleFifo.q_pc
    /\ q_got = IdleFifo.q_got

\* the counters incremented without a lock before the first worker is
\* started: increment_counter on 3 threads (file 29) or update_namespace, which
\* has no loop, on 5 processes (file 30)
InitCounterUnlocked ==
    /\ target \in {"increment_counter", "update_namespace"}
    /\ n_workers = IF target = "increment_counter" THEN CounterThreads
                                                    ELSE NamespaceProcesses
    /\ iterations \in IF target = "increment_counter" THEN 1..MaxIncrements
                                                       ELSE {1}
    /\ cells = [f \in {"value", "counter"} |-> 0]
    /\ lock = FALSE
    /\ k_pc = [t \in 1..MaxWorkers |-> "created"]
    /\ k_iter = [t \in 1..MaxWorkers |-> 1]
    /\ k_fld = [t \in 1..MaxWorkers |-> 1]
    /\ k_tmp = [t \in 1..MaxWorkers |-> 0]
    /\ k_main = <<"start", 1>>
    /\ permits = IdleSem.permits
    /\ semaphore = IdleSem.semaphore
    /\ nthreads = IdleSem.nthreads
    /\ t_pc = IdleSem.t_pc
    /\ s_main = IdleSem.s_main
    /\ max_connections = IdlePool.max_connections
    /\ pool = IdlePool.pool
    /\ cl_pc = IdlePool.cl_pc
    /\ cl_conn = IdlePool.cl_conn
    /\ ca_pc = IdlePool.ca_pc
    /\ closed_conns = IdlePool.closed_conns
    /\ e_fn = IdleMap.e_fn
    /\ max_workers = IdleMap.max_workers
    /\ e_items = IdleMap.e_items
    /\ work_queue = IdleMap.work_queue
    /\ e_running = IdleMap.e_running
    /\ e_futures = IdleMap.e_futures
    /\ e_pc = IdleMap.e_pc
    /\ e_next = IdleMap.e_next
    /\ results = IdleMap.results
    /\ event = IdleEvent.event
    /\ nwaiters = IdleEvent.nwaiters
    /\ waiter_pc = IdleEvent.waiter_pc
    /\ setter_pc = IdleEvent.setter_pc
    /\ ev_main = IdleEvent.ev_main
    /\ items = IdleFifo.items
    /\ queue = IdleFifo.queue
    /\ main_pc = IdleFifo.main_pc
    /\ p_pc = IdleFifo.p_pc
    /\ p_idx = IdleFifo.p_idx
    /\ c_pc = IdleFifo.c_pc
    /\ consumed = IdleFifo.consumed
    /\ q = IdleFifo.q
    /\ q_pc = IdleFifo.q_pc
    /\ q_got = IdleFifo.q_got

----------------------------------------------------------------------------
(* producer / consumer, 30_multiprocessing.py                              *)

\* p_producer.start()
MainStartProducer ==
    /\ main_pc = "start_producer"
    /\ main_pc' = "start_consumer"
    /\ p_pc' = IF items = <<>> THEN "sentinel" ELSE "put"
    /\ UNCHANGED <<items, queue, p_idx, c_pc, consumed>>
    /\ UNCHANGED <<q70Vars, semVars, poolVars, mapVars, eventVars, counterVars>>

\* p_consumer.start()
MainStartConsumer ==
    /\ main_pc = "start_consumer"
    /\ main_pc' = "join_producer"
    /\ c_pc' = "get"
    /\ UNCHANGED <<items, queue, p_pc, p_idx, consumed>>
    /\ UNCHANGED <<q70Vars, semVars, poolVars, mapVars, eventVars, counterVars>>

\* p_producer.join()
MainJoinProducer ==
    /\ main_pc = "join_producer"
    /\ p_pc = "done"
    /\ main_pc' = "join_consumer"
    /\ UNCHANGED <<items, queue, p_pc, p_idx, c_pc, consumed>>
    /\ UNCHANGED <<q70Vars, semVars, poolVars, mapVars, eventVars, counterVars>>

\* p_consumer.join()
MainJoinConsumer ==
    /\ main_pc = "join_consumer"
    /\ c_pc = "done"
    /\ main_pc' = "done"
    /\ UNCHANGED <<items, queue, p_pc, p_idx, c_pc, consumed>>
    /\ UNCHANGED <<q70Vars, semVars, poolVars, mapVars, eventVars, counterVars>>

\* print(f"Producing {item}"); queue.put(item)
ProducerPut ==
    /\ p_pc = "put"
    /\ queue' = QueuePut(queue, items[p_idx])
    /\ p_pc' = "sleep"
    /\ UNCHANGED <<items, main_pc, p_idx, c_pc, consumed>>
    /\ UNCHANGED <<q70Vars, semVars, poolVars, mapVars, eventVars, counterVars>>

\* time.sleep(0.1), then the next iteration of the for loop or its end
ProducerSleep ==
    /\ p_pc = "sleep"
    /\ p_idx' = p_idx + 1
    /\ p_pc' = IF p_idx < Len(items) THEN "put" ELSE "sentinel"
    /\ UNCHANGED <<items, queue, main_pc, c_pc, consumed>>
    /\ UNCHANGED <<q70Vars, semVars, poolVars, mapVars, eventVars, counterVars>>

\* queue.put(None)
ProducerSentinel ==
    /\ p_pc = "sentinel"
    /\ queue' = QueuePut(queue, None)
    /\ p_pc' = "done"
    /\ UNCHANGED <<items, main_pc, p_idx, c_pc, consumed>>
    /\ UNCHANGED <<q70Vars, semVars, poolVars, mapVars, eventVars, counterVars>>

\* item = queue.get(); if item is None: break; print(f"Consuming {item}")
ConsumerGet ==
    /\ c_pc = "get"
    /\ QueueCanGet(queue)
    /\ queue' = Tail(queue)
    /\ IF IsSentinel(Head(queue))
       THEN c_pc' = "done" /\ consumed' = consumed
       ELSE c_pc' = "sleep" /\ consumed' = Append(consumed, Head(queue))
    /\ UNCHANGED <<items, main_pc, p_pc, p_idx>>
    /\ UNCHANGED <<q70Vars, semVars, poolVars, mapVars, eventVars, counterVars>>

\* time.sleep(0.1), back to the top of while True
ConsumerSleep ==
    /\ c_pc = "sleep"
    /\ c_pc' = "get"
    /\ UNCHANGED <<items, queue, main_pc, p_pc, p_idx, consumed>>
    /\ UNCHANGED <<q70Vars, semVars, poolVars, mapVars, eventVars, counterVars>>

----------------------------------------------------------------------------
(* 70_queues_and_synchronization.py: q.put(1); q.put(2); q.get()           *)

Q70Put1 ==
    /\ q_pc = "put1"
    /\ q' = QueuePut(q, 1)
    /\ q_pc' = "put2"
    /\ UNCHANGED q_got
    /\ UNCHANGED <<pcVars, semVars, poolVars, mapVars, eventVars, counterVars>>

Q70Put2 ==
    /\ q_pc = "put2"
    /\ q' = QueuePut(q, 2)
    /\ q_pc' = "get"
    /\ UNCHANGED q_got
    /\ UNCHANGED <<pcVars, semVars, poolVars, mapVars, eventVars, counterVars>>

Q70Get ==
    /\ q_pc = "get"
    /\ QueueCanGet(q)
    /\ q_got' = Head(q)
    /\ q' = Tail(q)
    /\ q_pc' = "done"
    /\ UNCHANGED <<pcVars, semVars, poolVars, mapVars, eventVars, counterVars>>

NextFifo ==
    \/ MainStartProducer
    \/ MainStartConsumer
    \/ MainJoinProducer
    \/ MainJoinConsumer
    \/ ProducerPut
    \/ ProducerSleep
    \/ ProducerSentinel
    \/ ConsumerGet
    \/ ConsumerSleep
    \/ Q70Put1
    \/ Q70Put2
    \/ Q70Get

SpecFifo == InitFifo /\ [][NextFifo]_vars

\* the producer, the consumer and the main process are operating-system
\* processes: each keeps running while it has a step to take
SpecFifoFair == SpecFifo /\ WF_vars(NextFifo)

\* C26: sentinel protocol. The producer puts every item and then one None;
\* the consumer leaves its loop only on the sentinel, having consumed exactly
\* the producer's items in order with nothing left in the queue; after that it
\* consumes nothing more; and producer, consumer and the joining main process
\* all terminate.
SentinelProtocol ==
    /\ [](c_pc = "done" => (p_pc = "done" /\ consumed = items /\ queue = <<>>))
    /\ [][c_pc = "done" => (c_pc' = "done" /\ consumed' = consumed)]_vars
    /\ <>(main_pc = "done" /\ p_pc = "done" /\ c_pc = "done")

\* both processes have been joined after the consumer took several items and
\* then the sentinel
SentinelWitness ==
    /\ main_pc = "done"
    /\ c_pc = "done"
    /\ Len(items) >= 2
    /\ consumed = items

\* C4: FIFO. The consumer dequeues the items in the order the producer put
\* them: what it has consumed so far is always an initial segment of items,
\* with its single consumer it has seen exactly items once it leaves its loop,
\* and the script of file 70 gets 1, the first of its two puts.
FifoDequeueOrder ==
    /\ IsPrefix(consumed, items)
    /\ (c_pc = "done" => consumed = items)
    /\ (q_pc = "done" => q_got = 1)

\* two different items wait in the queue while the consumer is about to get,
\* and the script of file 70 has done its get
FifoWitness ==
    /\ c_pc = "get"
    /\ Len(consumed) >= 1
    /\ Len(queue) >= 2
    /\ queue[1] # queue[2]
    /\ q_pc = "done"

----------------------------------------------------------------------------
(* semaphore demonstration, 29_threading.py (the same bracket is used by   *)
(* limited_operation in 31_asyncio.py and fetch_with_limit in              *)
(* 46_async_http.py)                                                       *)

\* for t in threads: t.start()
SemMainStart ==
    /\ s_main[1] = "start"
    /\ t_pc' = [t_pc EXCEPT ![s_main[2]] = "acquire"]
    /\ s_main' = IF s_main[2] < nthreads
                 THEN <<"start", s_main[2] + 1>>
                 ELSE <<"join", 1>>
    /\ UNCHANGED <<permits, semaphore, nthreads>>
    /\ UNCHANGED <<pcVars, q70Vars, poolVars, mapVars, eventVars, counterVars>>

\* for t in threads: t.join()
SemMainJoin ==
    /\ s_main[1] = "join"
    /\ t_pc[s_main[2]] = "done"
    /\ s_main' = IF s_main[2] < nthreads
                 THEN <<"join", s_main[2] + 1>>
                 ELSE <<"done", 1>>
    /\ UNCHANGED <<permits, semaphore, nthreads, t_pc>>
    /\ UNCHANGED <<pcVars, q70Vars, poolVars, mapVars, eventVars, counterVars>>

\* with semaphore: (__enter__ is acquire), print "accessing resource"
SemAcquire(t) ==
    /\ t_pc[t] = "acquire"
    /\ SemCanAcquire(semaphore)
    /\ semaphore' = semaphore - 1
    /\ t_pc' = [t_pc EXCEPT ![t] = "accessing"]
    /\ UNCHANGED <<permits, nthreads, s_main>>
    /\ UNCHANGED <<pcVars, q70Vars, poolVars, mapVars, eventVars, counterVars>>

\* time.sleep(1); print "releasing resource"
SemSleep(t) ==
    /\ t_pc[t] = "accessing"
    /\ t_pc' = [t_pc EXCEPT ![t] = "releasing"]
    /\ UNCHANGED <<permits, semaphore, nthreads, s_main>>
    /\ UNCHANGED <<pcVars, q70Vars, poolVars, mapVars, eventVars, counterVars>>

\* end of the with block (__exit__ is release)
SemRelease(t) ==
    /\ t_pc[t] = "releasing"
    /\ semaphore' = SemReleased(semaphore)
    /\ t_pc' = [t_pc EXCEPT ![t] = "done"]
    /\ UNCHANGED <<permits, nthreads, s_main>>
    /\ UNCHANGED <<pcVars, q70Vars, poolVars, mapVars, eventVars, counterVars>>

NextSem ==
    \/ SemMainStart
    \/ SemMainJoin
    \/ \E t \in 1..NumThreads : SemAcquire(t)
    \/ \E t \in 1..NumThreads : SemSleep(t)
    \/ \E t \in 1..NumThreads : SemRelease(t)

\* the threads between their acquire and their release
InsideSection == {t \in 1..NumThreads : t_pc[t] \in {"accessing", "releasing"}}

SpecSem == InitSem /\ [][NextSem]_vars

\* C6: semaphore bound. With every caller bracketing its section by
\* acquire / release on a semaphore constructed with k permits, at most k
\* callers are inside the section in any reachable state.
SemaphoreBound == Cardinality(InsideSection) <= permits

\* the demonstration's 5 threads on Semaphore(2): two are inside the section
\* and a third has been started and waits in acquire
SemaphoreWitness ==
    /\ permits = SemaphorePermits
    /\ nthreads = NumThreads
    /\ Cardinality(InsideSection) = permits
    /\ \E t \in 1..NumThreads : t_pc[t] = "acquire"

----------------------------------------------------------------------------
(* ConnectionPool, 44_database_connections.py.  Connections are numbered   *)
(* 1..max_connections in the order __init__ creates them.  Callers may     *)
(* hand any connection to return_connection.                               *)

\* a caller enters get_connection()
CallGetConnection(c) ==
    /\ cl_pc[c] = "idle"
    /\ cl_pc' = [cl_pc EXCEPT ![c] = "getting"]
    /\ UNCHANGED <<max_connections, pool, cl_conn, ca_pc, closed_conns>>
    /\ UNCHANGED <<pcVars, q70Vars, semVars, mapVars, eventVars, counterVars>>

\* return self.pool.get()
GetConnection(c) ==
    /\ cl_pc[c] = "getting"
    /\ QueueCanGet(pool)
    /\ pool' = Tail(pool)
    /\ cl_pc' = [cl_pc EXCEPT ![c] = "idle"]
    /\ UNCHANGED <<max_connections, cl_conn, ca_pc, closed_conns>>
    /\ UNCHANGED <<pcVars, q70Vars, semVars, mapVars, eventVars, counterVars>>

\* a caller enters return_connection(conn)
CallReturnConnection(c, conn) ==
    /\ cl_pc[c] = "idle"
    /\ cl_pc' = [cl_pc EXCEPT ![c] = "putting"]
    /\ cl_conn' = [cl_conn EXCEPT ![c] = conn]
    /\ UNCHANGED <<max_connections, pool, ca_pc, closed_conns>>
    /\ UNCHANGED <<pcVars, q70Vars, semVars, mapVars, eventVars, counterVars>>

\* self.pool.put(conn)
ReturnConnection(c) ==
    /\ cl_pc[c] = "putting"
    /\ BoundedCanPut(pool, max_connections)
    /\ pool' = QueuePut(pool, cl_conn[c])
    /\ cl_pc' = [cl_pc EXCEPT ![c] = "idle"]
    /\ cl_conn' = [cl_conn EXCEPT ![c] = None]
    /\ UNCHANGED <<max_connections, ca_pc, closed_conns>>
    /\ UNCHANGED <<pcVars, q70Vars, semVars, mapVars, eventVars, counterVars>>

\* close_all() is called
CallCloseAll ==
    /\ ca_pc = "idle"
    /\ ca_pc' = "test"
    /\ UNCHANGED <<max_connections, pool, cl_pc, cl_conn, closed_conns>>
    /\ UNCHANGED <<pcVars, q70Vars, semVars, mapVars, eventVars, counterVars>>

\* while not self.pool.empty():
CloseAllTest ==
    /\ ca_pc = "test"
    /\ ca_pc' = IF pool = <<>> THEN "done" ELSE "get"
    /\ UNCHANGED <<max_connections, pool, cl_pc, cl_conn, closed_conns>>
    /\ UNCHANGED <<pcVars, q70Vars, semVars, mapVars, eventVars, counterVars>>

\* conn = self.pool.get(); conn.close()
CloseAllGet ==
    /\ ca_pc = "get"
    /\ QueueCanGet(pool)
    /\ pool' = Tail(pool)
    /\ closed_conns' = closed_conns \cup {Head(pool)}
    /\ ca_pc' = "test"
    /\ UNCHANGED <<max_connections, cl_pc, cl_conn>>
    /\ UNCHANGED <<pcVars, q70Vars, semVars, mapVars, eventVars, counterVars>>

NextPool ==
    \/ \E c \in 1..NumClients : CallGetConnection(c)
    \/ \E c \in 1..NumClients : GetConnection(c)
    \/ \E c \in 1..NumClients, conn \in 1..max_connections :
           CallReturnConnection(c, conn)
    \/ \E c \in 1..NumClients : ReturnConnection(c)
    \/ CallCloseAll
    \/ CloseAllTest
    \/ CloseAllGet

SpecPool == InitPool /\ [][NextPool]_vars

\* C2: capacity. The bounded queue of a pool constructed with a capacity
\* max_connections >= 1 never holds more than max_connections items, whatever
\* the callers of get_connection, return_connection and close_all do and
\* however they interleave.
QueueWithinCapacity == Len(pool) <= max_connections

\* the queue is at capacity and a caller is inside return_connection with
\* one more connection to put
CapacityWitness ==
    /\ Len(pool) = max_connections
    /\ \E c \in 1..NumClients : cl_pc[c] = "putting"

----------------------------------------------------------------------------
(* results = list(executor.map(process_item, items)), 29_threading.py, and *)
(* squared = pool.map(square_number, numbers), 30_multiprocessing.py.      *)
(* map submits one call per element, in input order; the workers of the    *)
(* pool take the calls and set their results; the list is built from the   *)
(* results by index.                                                       *)

\* map submits the call for the next element
MapSubmit ==
    /\ e_pc = "submit"
    /\ work_queue' = QueuePut(work_queue, e_next)
    /\ IF e_next = Len(e_items)
       THEN e_pc' = "collect" /\ e_next' = 1
       ELSE e_pc' = "submit" /\ e_next' = e_next + 1
    /\ UNCHANGED <<e_fn, max_workers, e_items, e_running, e_futures, results>>
    /\ UNCHANGED <<pcVars, q70Vars, semVars, poolVars, eventVars, counterVars>>

\* an idle worker takes the oldest submitted call
WorkerTake(w) ==
    /\ e_running[w] = 0
    /\ QueueCanGet(work_queue)
    /\ e_running' = [e_running EXCEPT ![w] = Head(work_queue)]
    /\ work_queue' = Tail(work_queue)
    /\ UNCHANGED <<e_fn, max_workers, e_items, e_futures, e_pc, e_next, results>>
    /\ UNCHANGED <<pcVars, q70Vars, semVars, poolVars, eventVars, counterVars>>

\* the worker returns from the mapped function and sets the call's result
WorkerFinish(w) ==
    /\ e_running[w] # 0
    /\ e_futures' = [j \in DOMAIN e_futures \cup {e_running[w]} |->
                        IF j = e_running[w]
                        THEN Apply(e_fn, e_items[j])
                        ELSE e_futures[j]]
    /\ e_running' = [e_running EXCEPT ![w] = 0]
    /\ UNCHANGED <<e_fn, max_workers, e_items, work_queue, e_pc, e_next, results>>
    /\ UNCHANGED <<pcVars, q70Vars, semVars, poolVars, eventVars, counterVars>>

\* the main thread takes the next result for the list, waiting until it is set
MapCollect ==
    /\ e_pc = "collect"
    /\ LET j == NextToYield(e_next, DOMAIN e_futures)
       IN  /\ j \in DOMAIN e_futures
           /\ results' = Append(results, e_futures[j])
    /\ IF e_next = Len(e_items)
       THEN e_pc' = "exit" /\ e_next' = e_next
       ELSE e_pc' = "collect" /\ e_next' = e_next + 1
    /\ UNCHANGED <<e_fn, max_workers, e_items, work_queue, e_running, e_futures>>
    /\ UNCHANGED <<pcVars, q70Vars, semVars, poolVars, eventVars, counterVars>>

\* end of the with block: the pool is shut down once its workers are idle
MapExit ==
    /\ e_pc = "exit"
    /\ \A w \in 1..max_workers : e_running[w] = 0
    /\ e_pc' = "done"
    /\ UNCHANGED <<e_fn, max_workers, e_items, work_queue, e_running, e_futures,
                   e_next, results>>
    /\ UNCHANGED <<pcVars, q70Vars, semVars, poolVars, eventVars, counterVars>>

NextMap ==
    \/ MapSubmit
    \/ \E w \in 1..max_workers : WorkerTake(w)
    \/ \E w \in 1..max_workers : WorkerFinish(w)
    \/ MapCollect
    \/ MapExit

SpecMap == InitMap /\ [][NextMap]_vars

\* C17: map order. The i-th element of the list built from map is the result
\* of the mapped function on the i-th input element, in whatever order the
\* workers finish, and the list is complete when the with block is left.
MapPreservesInputOrder ==
    /\ Len(results) <= Len(e_items)
    /\ \A i \in 1..Len(results) : results[i] = Apply(e_fn, e_items[i])
    /\ (e_pc \in {"exit", "done"} => Len(results) = Len(e_items))

\* the workers finished out of input order: the main thread has taken a
\* result, waits for the next one, and a later call on a different element
\* has already set its result
MapOrderWitness ==
    /\ e_pc = "collect"
    /\ Len(results) >= 1
    /\ e_next \notin DOMAIN e_futures
    /\ \E j \in DOMAIN e_futures : j > e_next /\ e_items[j] # e_items[e_next]

----------------------------------------------------------------------------
(* Event demonstration: waiter() and setter() of 29_threading.py, started  *)
(* by the main thread; 31_asyncio.py gathers waiters A and B and a setter. *)

\* threading.Thread(target=waiter).start()
EvMainStartWaiter ==
    /\ ev_main[1] = "start_waiter"
    /\ waiter_pc' = [waiter_pc EXCEPT ![ev_main[2]] = "started"]
    /\ ev_main' = IF ev_main[2] < nwaiters
                  THEN <<"start_waiter", ev_main[2] + 1>>
                  ELSE <<"start_setter", 1>>
    /\ UNCHANGED <<event, nwaiters, setter_pc>>
    /\ UNCHANGED <<pcVars, q70Vars, semVars, poolVars, mapVars, counterVars>>

\* threading.Thread(target=setter).start()
EvMainStartSetter ==
    /\ ev_main[1] = "start_setter"
    /\ setter_pc' = "sleeping"
    /\ ev_main' = <<"sleep", 1>>
    /\ UNCHANGED <<event, nwaiters, waiter_pc>>
    /\ UNCHANGED <<pcVars, q70Vars, semVars, poolVars, mapVars, counterVars>>

\* time.sleep(3) of the main thread; it does not join the threads
EvMainSleep ==
    /\ ev_main[1] = "sleep"
    /\ ev_main' = <<"done", 1>>
    /\ UNCHANGED <<event, nwaiters, waiter_pc, setter_pc>>
    /\ UNCHANGED <<pcVars, q70Vars, semVars, poolVars, mapVars, counterVars>>

\* print("Waiter thread waiting..."), up to the call of event.wait()
WaiterEnter(w) ==
    /\ waiter_pc[w] = "started"
    /\ waiter_pc' = [waiter_pc EXCEPT ![w] = "waiting"]
    /\ UNCHANGED <<event, nwaiters, setter_pc, ev_main>>
    /\ UNCHANGED <<pcVars, q70Vars, semVars, poolVars, mapVars, counterVars>>

\* event.wait() returns: the flag is set
WaiterWait(w) ==
    /\ waiter_pc[w] = "waiting"
    /\ event
    /\ event' = EventAfterWait(event)
    /\ waiter_pc' = [waiter_pc EXCEPT ![w] = "received"]
    /\ UNCHANGED <<nwaiters, setter_pc, ev_main>>
    /\ UNCHANGED <<pcVars, q70Vars, semVars, poolVars, mapVars, counterVars>>

\* print("Waiter thread received signal!")
WaiterReceived(w) ==
    /\ waiter_pc[w] = "received"
    /\ waiter_pc' = [waiter_pc EXCEPT ![w] = "done"]
    /\ UNCHANGED <<event, nwaiters, setter_pc, ev_main>>
    /\ UNCHANGED <<pcVars, q70Vars, semVars, poolVars, mapVars, counterVars>>

\* time.sleep(2); print("Setting event...")
SetterSleep ==
    /\ setter_pc = "sleeping"
    /\ setter_pc' = "setting"
    /\ UNCHANGED <<event, nwaiters, waiter_pc, ev_main>>
    /\ UNCHANGED <<pcVars, q70Vars, semVars, poolVars, mapVars, counterVars>>

\* event.set()
SetterSet ==
    /\ setter_pc = "setting"
    /\ event' = TRUE
    /\ setter_pc' = "done"
    /\ UNCHANGED <<nwaiters, waiter_pc, ev_main>>
    /\ UNCHANGED <<pcVars, q70Vars, semVars, poolVars, mapVars, counterVars>>

NextEvent ==
    \/ EvMainStartWaiter
    \/ EvMainStartSetter
    \/ EvMainSleep
    \/ \E w \in 1..MaxWaiters : WaiterEnter(w)
    \/ \E w \in 1..MaxWaiters : WaiterWait(w)
    \/ \E w \in 1..MaxWaiters : WaiterReceived(w)
    \/ SetterSleep
    \/ SetterSet

\* every started thread keeps running while it has a step to take
SpecEvent == InitEvent /\ [][NextEvent]_vars /\ WF_vars(NextEvent)

----------------------------------------------------------------------------
(* Shared counters: increment_counter and increment_counter_safe of        *)
(* 29_threading.py, increment_shared_value and update_namespace of         *)
(* 30_multiprocessing.py.  `x += 1` on a shared integer is a read of x     *)
(* followed by a store of the value read plus one.                         *)

\* where a worker is after finishing one pass over its increments
AfterPass(t) ==
    IF k_iter[t] < iterations
    THEN [pc |-> IF UsesLock(target) THEN "acquire" ELSE "read",
          iter |-> k_iter[t] + 1]
    ELSE [pc |-> "done", iter |-> k_iter[t]]

\* for t in threads: t.start()
CounterMainStart ==
    /\ k_main[1] = "start"
    /\ k_pc' = [k_pc EXCEPT ![k_main[2]] =
                    IF UsesLock(target) THEN "acquire" ELSE "read"]
    /\ k_main' = IF k_main[2] < n_workers
                 THEN <<"start", k_main[2] + 1>>
                 ELSE <<"join", 1>>
    /\ UNCHANGED <<target, n_workers, iterations, cells, lock, k_iter, k_fld,
                   k_tmp>>
    /\ UNCHANGED <<pcVars, q70Vars, semVars, poolVars, mapVars, eventVars>>

\* for t in threads: t.join()
CounterMainJoin ==
    /\ k_main[1] = "join"
    /\ k_pc[k_main[2]] = "done"
    /\ k_main' = IF k_main[2] < n_workers
                 THEN <<"join", k_main[2] + 1>>
                 ELSE <<"done", 1>>
    /\ UNCHANGED <<target, n_workers, iterations, cells, lock, k_pc, k_iter,
                   k_fld, k_tmp>>
    /\ UNCHANGED <<pcVars, q70Vars, semVars, poolVars, mapVars, eventVars>>

\* with lock:
LockAcquire(t) ==
    /\ k_pc[t] = "acquire"
    /\ LockCanAcquire(lock)
    /\ lock' = TRUE
    /\ k_pc' = [k_pc EXCEPT ![t] = "read"]
    /\ UNCHANGED <<target, n_workers, iterations, cells, k_iter, k_fld, k_tmp,
                   k_main>>
    /\ UNCHANGED <<pcVars, q70Vars, semVars, poolVars, mapVars, eventVars>>

\* the read of x in x += 1
CounterRead(t) ==
    /\ k_pc[t] = "read"
    /\ k_tmp' = [k_tmp EXCEPT ![t] = cells[Fields(target)[k_fld[t]]]]
    /\ k_pc' = [k_pc EXCEPT ![t] = "write"]
    /\ UNCHANGED <<target, n_workers, iterations, cells, lock, k_iter, k_fld,
                   k_main>>
    /\ UNCHANGED <<pcVars, q70Vars, semVars, poolVars, mapVars, eventVars>>

\* the store of x in x += 1, then on to the next increment, the release of
\* the lock, the next iteration or the end of the function
CounterWrite(t) ==
    /\ k_pc[t] = "write"
    /\ cells' = [cells EXCEPT ![Fields(target)[k_fld[t]]] = Incremented(k_tmp[t])]
    /\ k_tmp' = [k_tmp EXCEPT ![t] = 0]
    /\ IF k_fld[t] < Len(Fields(target))
       THEN /\ k_fld' = [k_fld EXCEPT ![t] = k_fld[t] + 1]
            /\ k_pc' = [k_pc EXCEPT ![t] = "read"]
            /\ k_iter' = k_iter
       ELSE /\ k_fld' = [k_fld EXCEPT ![t] = 1]
            /\ IF UsesLock(target)
               THEN k_pc' = [k_pc EXCEPT ![t] = "release"] /\ k_iter' = k_iter
               ELSE /\ k_pc' = [k_pc EXCEPT ![t] = AfterPass(t).pc]
                    /\ k_iter' = [k_iter EXCEPT ![t] = AfterPass(t).iter]
    /\ UNCHANGED <<target, n_workers, iterations, lock, k_main>>
    /\ UNCHANGED <<pcVars, q70Vars, semVars, poolVars, mapVars, eventVars>>

\* end of the with block: the lock is released
LockRelease(t) ==
    /\ k_pc[t] = "release"
    /\ lock' = FALSE
    /\ k_pc' = [k_pc EXCEPT ![t] = AfterPass(t).pc]
    /\ k_iter' = [k_iter EXCEPT ![t] = AfterPass(t).iter]
    /\ UNCHANGED <<target, n_workers, iterations, cells, k_fld, k_tmp, k_main>>
    /\ UNCHANGED <<pcVars, q70Vars, semVars, poolVars, mapVars, eventVars>>

NextCounterLocked ==
    \/ CounterMainStart
    \/ CounterMainJoin
    \/ \E t \in 1..MaxWorkers : LockAcquire(t)
    \/ \E t \in 1..MaxWorkers : CounterRead(t)
    \/ \E t \in 1..MaxWorkers : CounterWrite(t)
    \/ \E t \in 1..MaxWorkers : LockRelease(t)

NextCounterUnlocked ==
    \/ CounterMainStart
    \/ CounterMainJoin
    \/ \E t \in 1..MaxWorkers : CounterRead(t)
    \/ \E t \in 1..MaxWorkers : CounterWrite(t)

SpecCounterLocked == InitCounterLocked /\ [][NextCounterLocked]_vars

SpecCounterUnlocked == InitCounterUnlocked /\ [][NextCounterUnlocked]_vars

\* C24: no lost update under the lock. Once every worker has been joined,
\* the shared integer equals the number of workers times the increments
\* each of them made.
LockedCounterTotal ==
    k_main[1] = "done" =>
        cells[Fields(target)[1]] = n_workers * iterations

\* all workers of a lock-protected counter have been joined after looping
\* more than once each
LockedCounterWitness ==
    /\ UsesLock(target)
    /\ k_main[1] = "done"
    /\ iterations >= 2
    /\ n_workers >= CounterThreads

\* C25: the claim that after the three increment_counter threads have been
\* joined the global counter is the number of threads times the increments
\* per thread
UnlockedCounterTotal ==
    (target = "increment_counter" /\ k_main[1] = "done") =>
        cells["counter"] = n_workers * iterations

\* C30: the claim that after the five update_namespace processes have been
\* joined shared_ns.value and shared_ns.counter are both 5
NamespaceTotals ==
    (target = "update_namespace" /\ k_main[1] = "done") =>
        (cells["value"] = NamespaceProcesses /\ cells["counter"] = NamespaceProcesses)

====
